---- MODULE Spec2Model ----
(***************************************************************************)
(* The packet codec framework of feather's protocol crate:                 *)
(*   packets!      (crates/protocol/src/packets.rs 37-86)                  *)
(*   def_enum!     (crates/protocol/src/packets.rs 88-179)                 *)
(*   packet_enum!  (crates/protocol/src/packets.rs 181-247)                *)
(* over the schemas of crates/protocol/src/packets/client/play.rs.         *)
(*                                                                         *)
(* A byte is an integer 0..255, a buffer a sequence of bytes, a cursor a   *)
(* buffer and the number of bytes already consumed.  The primitive wire    *)
(* codecs (crate::io) are not among the sources; they follow section 4.1   *)
(* of the specification.                                                   *)
(***************************************************************************)
EXTENDS Integers, Sequences, FiniteSets, TLC

(***************************************************************************)
(* Bounds of the model.                                                    *)
(***************************************************************************)
\* Longest string (in characters) a constructed packet carries.
MaxStrLen == 1
\* Longest length-inferred payload (in bytes) a constructed packet carries.
MaxDataLen == 2
\* Number of protocol versions drawn for a codec call.
NumVersions == 2
\* Longest run of bytes following the packet ID in a stream that no encoder wrote.
MaxTailLen == 2

Versions == 1..NumVersions

\* Number of entities of the world that may send a command.
NumEntities == 3
\* Longest list of errors a failed dispatch returns.
MaxErrs == 2

(***************************************************************************)
(* Results and errors.  An error is anyhow::Error: a root cause and the    *)
(* chain of contexts added on the way out, outermost first.                *)
(***************************************************************************)
NoVal == [none |-> TRUE]
NoErr == [kind |-> "none", type_name |-> "", raw |-> 0, ctx |-> <<>>]

Error(kind, type_name, raw) ==
    [kind |-> kind, type_name |-> type_name, raw |-> raw, ctx |-> <<>>]

Ok(val, pos, log) == [ok |-> TRUE, val |-> val, err |-> NoErr, pos |-> pos, log |-> log]
Err(err, pos, log) == [ok |-> FALSE, val |-> NoVal, err |-> err, pos |-> pos, log |-> log]

\* A read or write event: who owns the item, which item, its wire type and the
\* bytes it spans.
Event(owner, item, typ, from, to) ==
    [owner |-> owner, item |-> item, typ |-> typ, from |-> from, to |-> to]

(***************************************************************************)
(* Primitive wire codecs (specification 4.1).                              *)
(***************************************************************************)
Pow2(n) == 2 ^ n

\* F applied to the value of e, e evaluated once.
Once(e, F(_)) == CHOOSE y \in {F(x) : x \in {e}} : TRUE

\* The bytes left under the cursor.
Remaining(bytes, pos) == Len(bytes) - pos

\* ---- fixed-width big-endian integers, held as 16-bit limbs where wide ----
U8Write(v) == <<v>>
U8Read(bytes, pos) ==
    IF Remaining(bytes, pos) < 1
    THEN Err(Error("TruncatedInput", "", 0), Len(bytes), <<>>)
    ELSE Ok(bytes[pos + 1], pos + 1, <<>>)

U16Write(v) == <<v \div 256, v % 256>>
U16Read(bytes, pos) ==
    IF Remaining(bytes, pos) < 2
    THEN Err(Error("TruncatedInput", "", 0), Len(bytes), <<>>)
    ELSE Ok(bytes[pos + 1] * 256 + bytes[pos + 2], pos + 2, <<>>)

RECURSIVE LimbsWrite(_)
LimbsWrite(limbs) ==
    IF limbs = <<>> THEN <<>>
    ELSE U16Write(Head(limbs)) \o LimbsWrite(Tail(limbs))

RECURSIVE LimbsRead(_, _, _)
LimbsRead(bytes, pos, n) ==
    IF n = 0 THEN <<>>
    ELSE <<bytes[pos + 1] * 256 + bytes[pos + 2]>> \o LimbsRead(bytes, pos + 2, n - 1)

\* u64, f64: 8 bytes, four limbs; f32: 4 bytes, two limbs (the IEEE bit pattern).
WideWrite(limbs) == LimbsWrite(limbs)
WideRead(bytes, pos, nlimbs) ==
    IF Remaining(bytes, pos) < 2 * nlimbs
    THEN Err(Error("TruncatedInput", "", 0), Len(bytes), <<>>)
    ELSE Ok(LimbsRead(bytes, pos, nlimbs), pos + 2 * nlimbs, <<>>)

\* ---- bool: 0x01 / 0x00 on encode, nonzero = true on decode ----
BoolWrite(b) == IF b THEN <<1>> ELSE <<0>>
BoolRead(bytes, pos) ==
    IF Remaining(bytes, pos) < 1
    THEN Err(Error("TruncatedInput", "", 0), Len(bytes), <<>>)
    ELSE Ok(bytes[pos + 1] # 0, pos + 1, <<>>)

\* ---- VarInt: 7 data bits per byte, least-significant group first ----
\* Logical shift right by 7 of a 32-bit two's-complement value.
Shr7(v) == IF v < 0 THEN (v \div 128) + Pow2(25) ELSE v \div 128

RECURSIVE VarIntGroups(_)
VarIntGroups(v) ==
    IF v >= 0 /\ v < 128 THEN <<v>>
    ELSE <<(v % 128) + 128>> \o VarIntGroups(Shr7(v))

VarIntWrite(w) == VarIntGroups(w.v)

\* The value of group number n (0-based) in a 32-bit result: the fifth group
\* keeps its low four bits, the fourth of them being the sign.
GroupValue(g, n) ==
    IF n < 4 THEN g * Pow2(7 * n)
    ELSE IF (g % 16) >= 8 THEN ((g % 16) - 16) * Pow2(28) ELSE (g % 16) * Pow2(28)

RECURSIVE VarIntReadFrom(_, _, _, _)
VarIntReadFrom(bytes, pos, n, acc) ==
    IF Remaining(bytes, pos) < 1
    THEN Err(Error("CorruptVarInt", "", 0), Len(bytes), <<>>)
    ELSE LET b == bytes[pos + 1]
             val == acc + GroupValue(b % 128, n)
         IN IF b < 128 THEN Ok([wire |-> "VarInt", v |-> val], pos + 1, <<>>)
            ELSE IF n = 4 THEN Err(Error("CorruptVarInt", "", 0), pos + 1, <<>>)
            ELSE VarIntReadFrom(bytes, pos + 1, n + 1, val)

VarIntRead(bytes, pos) == VarIntReadFrom(bytes, pos, 0, 0)

\* ---- UTF-8 ----
IsCont(b) == b >= 128 /\ b < 192

Utf8Char(cp) ==
    IF cp < 128 THEN <<cp>>
    ELSE IF cp < 2048 THEN <<192 + (cp \div 64), 128 + (cp % 64)>>
    ELSE IF cp < 65536
         THEN <<224 + (cp \div 4096), 128 + ((cp \div 64) % 64), 128 + (cp % 64)>>
    ELSE <<240 + (cp \div 262144), 128 + ((cp \div 4096) % 64),
           128 + ((cp \div 64) % 64), 128 + (cp % 64)>>

RECURSIVE Utf8Encode(_)
Utf8Encode(chars) ==
    IF chars = <<>> THEN <<>>
    ELSE Utf8Char(Head(chars)) \o Utf8Encode(Tail(chars))

\* The length of the well-formed sequence starting at bs[i], or 0 if there is none.
Utf8SeqLen(bs, i) ==
    LET b == bs[i]
        have(k) == i + k - 1 <= Len(bs) /\ \A j \in 1..(k - 1) : IsCont(bs[i + j])
    IN IF b < 128 THEN 1
       ELSE IF b >= 194 /\ b < 224 THEN (IF have(2) THEN 2 ELSE 0)
       ELSE IF b >= 224 /\ b < 240
            THEN (IF have(3) /\ (b # 224 \/ bs[i + 1] >= 160) /\ (b # 237 \/ bs[i + 1] < 160)
                  THEN 3 ELSE 0)
       ELSE IF b >= 240 /\ b < 245
            THEN (IF have(4) /\ (b # 240 \/ bs[i + 1] >= 144) /\ (b # 244 \/ bs[i + 1] < 144)
                  THEN 4 ELSE 0)
       ELSE 0

Utf8CodePoint(bs, i, k) ==
    IF k = 1 THEN bs[i]
    ELSE IF k = 2 THEN (bs[i] - 192) * 64 + (bs[i + 1] - 128)
    ELSE IF k = 3 THEN (bs[i] - 224) * 4096 + (bs[i + 1] - 128) * 64 + (bs[i + 2] - 128)
    ELSE (bs[i] - 240) * 262144 + (bs[i + 1] - 128) * 4096
         + (bs[i + 2] - 128) * 64 + (bs[i + 3] - 128)

\* The characters of bs from index i on, or <<-1>> if bs is not valid UTF-8.
RECURSIVE Utf8Decode(_, _)
Utf8Decode(bs, i) ==
    IF i > Len(bs) THEN <<>>
    ELSE LET k == Utf8SeqLen(bs, i)
         IN IF k = 0 THEN <<-1>>
            ELSE LET rest == Utf8Decode(bs, i + k)
                 IN IF rest = <<-1>> THEN <<-1>>
                    ELSE <<Utf8CodePoint(bs, i, k)>> \o rest

\* ---- String: VarInt byte length, then that many bytes of UTF-8 ----
StringWrite(chars) ==
    LET bs == Utf8Encode(chars)
    IN VarIntWrite([wire |-> "VarInt", v |-> Len(bs)]) \o bs

StringRead(bytes, pos) ==
    LET body(n) ==
            IF ~n.ok THEN n
            ELSE IF n.val.v < 0 \/ n.val.v > Remaining(bytes, n.pos)
            THEN Err(Error("TruncatedInput", "", 0), Len(bytes), <<>>)
            ELSE LET chars == Utf8Decode(SubSeq(bytes, n.pos + 1, n.pos + n.val.v), 1)
                 IN IF chars = <<-1>>
                    THEN Err(Error("InvalidUtf8", "", 0), n.pos + n.val.v, <<>>)
                    ELSE Ok(chars, n.pos + n.val.v, <<>>)
    IN Once(VarIntRead(bytes, pos), body)

\* ---- LengthInferredVecU8: every byte left in the read scope, no prefix ----
LengthInferredVecU8Write(w) == w.v
LengthInferredVecU8Read(bytes, pos) ==
    Ok([wire |-> "LengthInferredVecU8", v |-> SubSeq(bytes, pos + 1, Len(bytes))],
       Len(bytes), <<>>)

\* ---- Angle: one byte, 256 units per full turn ----
\* A rotation in degrees is held in units of 1/64 degree, so that one byte unit
\* (360/256 degree) is AngleUnit of them and the scale is exact.
AngleUnit == 90
AngleWrite(w) == <<(w.v \div AngleUnit) % 256>>
AngleRead(bytes, pos) ==
    IF Remaining(bytes, pos) < 1
    THEN Err(Error("TruncatedInput", "", 0), Len(bytes), <<>>)
    ELSE Ok([wire |-> "Angle", v |-> bytes[pos + 1] * AngleUnit], pos + 1, <<>>)
(***************************************************************************)
(* Schemas: packets/client/play.rs.  A packet schema is the ordered list   *)
(* of <<field, wire type>>; an enum schema the ordered list of             *)
(* discriminant literal, variant and the variant's fields.                 *)
(***************************************************************************)
ClientPacketSchema(P) ==
    CASE P = "TeleportConfirm" -> << <<"teleport_id", "VarInt">> >>
      [] P = "ChatMessage" -> << <<"message", "String">> >>
      [] P = "ClientSettings" ->
            << <<"locale", "String">>, <<"view_distance", "u8">>,
               <<"chat_mode", "ChatMode">>, <<"chat_colors", "bool">>,
               <<"displayed_skin_parts", "u8">>, <<"main_hand", "VarInt">> >>
      [] P = "PluginMessage" ->
            << <<"channel", "String">>, <<"data", "LengthInferredVecU8">> >>
      [] P = "InteractEntity" ->
            << <<"entity_id", "VarInt">>, <<"kind", "InteractEntityKind">> >>
      [] P = "KeepAlive" -> << <<"id", "u64">> >>

\* A packet of the other direction (packets/server/play.rs), the kind of
\* packet that carries a rotation: an entity and the yaw of its head as an Angle.
ServerPacketSchema(P) ==
    CASE P = "EntityHeadLook" ->
            << <<"entity_id", "VarInt">>, <<"head_yaw", "Angle">> >>

EnumNames == {"ChatMode", "InteractEntityKind"}

EnumSchema(E) ==
    CASE E = "ChatMode" ->
            << [lit |-> 0, variant |-> "Enabled", fields |-> <<>>],
               [lit |-> 1, variant |-> "CommandsOnly", fields |-> <<>>],
               [lit |-> 2, variant |-> "Hidden", fields |-> <<>>] >>
      [] E = "InteractEntityKind" ->
            << [lit |-> 0, variant |-> "Interact", fields |-> <<>>],
               [lit |-> 1, variant |-> "Attack", fields |-> <<>>],
               [lit |-> 2, variant |-> "InteractAt",
                fields |-> << <<"target_x", "f64">>, <<"target_y", "f64">>,
                              <<"target_z", "f64">>, <<"hand", "VarInt">> >>] >>

\* $discriminant_type of a def_enum! invocation.
DiscriminantType(E) == "VarInt"

\* The packets of client/play.rs modelled here, and the packet of the other
\* direction.
ClientPackets ==
    {"TeleportConfirm", "ChatMessage", "ClientSettings", "PluginMessage",
     "InteractEntity", "KeepAlive"}
ServerPackets == {"EntityHeadLook"}
PacketNames == ClientPackets \cup ServerPackets

PacketSchema(P) ==
    IF P \in ClientPackets THEN ClientPacketSchema(P) ELSE ServerPacketSchema(P)

\* The registries: packet_enum! { id = packet, ... }, one per direction of the
\* play phase.
Registry(R) ==
    CASE R = "ClientPlayPacket" ->
            << [id |-> 0, packet |-> "TeleportConfirm"],
               [id |-> 3, packet |-> "ChatMessage"],
               [id |-> 5, packet |-> "ClientSettings"],
               [id |-> 11, packet |-> "PluginMessage"],
               [id |-> 14, packet |-> "InteractEntity"],
               [id |-> 16, packet |-> "KeepAlive"] >>
      [] R = "ServerPlayPacket" ->
            << [id |-> 58, packet |-> "EntityHeadLook"] >>

RegistryNames == {"ClientPlayPacket", "ServerPlayPacket"}
Bound(R) == {Registry(R)[i].packet : i \in DOMAIN Registry(R)}

(***************************************************************************)
(* user_type! and the conversions between a field's in-memory value and    *)
(* the value its wire type reads and writes.                               *)
(***************************************************************************)
Wrapped == {"VarInt", "LengthInferredVecU8", "Angle"}

\* A narrowing cast on the way to the wire: VarInt(*e as u8 as i32).
user_type_convert_narrowing(typ, e) ==
    IF typ = "VarInt" THEN [wire |-> typ, v |-> e % 256]
    ELSE IF typ \in Wrapped THEN [wire |-> typ, v |-> e] ELSE e

user_type_convert_to_writeable(typ, e) ==
    IF typ \in Wrapped THEN [wire |-> typ, v |-> e] ELSE e

\* The .into() a read field goes through.
into(typ, w) == IF typ \in Wrapped THEN w.v ELSE w

\* anyhow's .context(c) on a failed result: the error keeps its root cause and
\* gains c as its outermost context.
Context(res, c) == [res EXCEPT !.err.ctx = <<c>> \o @]

\* "failed to read field `field` of packet `owner`" (of enum `owner`)
FieldContext(of, owner, field) ==
    [what |-> "field", field |-> field, of |-> of, owner |-> owner]
\* "failed to read discriminant for enum type E"
DiscriminantContext(E) ==
    [what |-> "discriminant", field |-> "", of |-> "enum type", owner |-> E]

\* The failed result passed on without .context(..).
field_context_dropped(res, of, owner, field) == res

\* .context(concat!("failed to read field `", .., "` of packet `", .., "`"))
field_context(res, of, owner, field) == Context(res, FieldContext(of, owner, field))
(***************************************************************************)
(* The generated codecs.  Every call carries the protocol version.  A      *)
(* read returns the value or the error, the cursor position it leaves and  *)
(* the events it performed; a write returns the buffer it appended to and  *)
(* the events it performed.                                                *)
(***************************************************************************)
RECURSIVE TypeRead(_, _, _, _)
RECURSIVE ReadFields(_, _, _, _, _, _, _, _, _)
RECURSIVE def_enum_read(_, _, _, _)
RECURSIVE TypeWrite(_, _, _, _)
RECURSIVE WriteFields(_, _, _, _, _, _)
RECURSIVE def_enum_write(_, _, _)

VariantOwner(E, V) == E \o "::" \o V

Appended(buffer, bytes) == [buf |-> buffer \o bytes, log |-> <<>>]

\* <$typ>::read(buffer, version)
TypeRead(typ, bytes, pos, version) ==
    CASE typ = "VarInt" -> VarIntRead(bytes, pos)
      [] typ = "u8" -> U8Read(bytes, pos)
      [] typ = "u64" -> WideRead(bytes, pos, 4)
      [] typ = "f64" -> WideRead(bytes, pos, 4)
      [] typ = "bool" -> BoolRead(bytes, pos)
      [] typ = "String" -> StringRead(bytes, pos)
      [] typ = "LengthInferredVecU8" -> LengthInferredVecU8Read(bytes, pos)
      [] typ = "Angle" -> AngleRead(bytes, pos)
      [] typ \in EnumNames -> def_enum_read(typ, bytes, pos, version)

\* A write whose bool is two bytes wide from the second protocol version on.
TypeWrite_by_version(typ, w, buffer, version) ==
    CASE typ = "VarInt" -> Appended(buffer, VarIntWrite(w))
      [] typ = "u8" -> Appended(buffer, U8Write(w))
      [] typ = "u64" -> Appended(buffer, WideWrite(w))
      [] typ = "f64" -> Appended(buffer, WideWrite(w))
      [] typ = "bool" -> Appended(buffer, IF version = 1 THEN BoolWrite(w)
                                                         ELSE <<0>> \o BoolWrite(w))
      [] typ = "String" -> Appended(buffer, StringWrite(w))
      [] typ = "LengthInferredVecU8" -> Appended(buffer, LengthInferredVecU8Write(w))
      [] typ = "Angle" -> Appended(buffer, AngleWrite(w))
      [] typ \in EnumNames -> def_enum_write(w, buffer, version)

\* (value).write(buffer, version)
TypeWrite(typ, w, buffer, version) ==
    CASE typ = "VarInt" -> Appended(buffer, VarIntWrite(w))
      [] typ = "u8" -> Appended(buffer, U8Write(w))
      [] typ = "u64" -> Appended(buffer, WideWrite(w))
      [] typ = "f64" -> Appended(buffer, WideWrite(w))
      [] typ = "bool" -> Appended(buffer, BoolWrite(w))
      [] typ = "String" -> Appended(buffer, StringWrite(w))
      [] typ = "LengthInferredVecU8" -> Appended(buffer, LengthInferredVecU8Write(w))
      [] typ = "Angle" -> Appended(buffer, AngleWrite(w))
      [] typ \in EnumNames -> def_enum_write(w, buffer, version)

\* The field loop of a read: let $field = <$typ>::read(..).context(..)?.into();
\* one field after the other, the first failure returned with its context.
ReadFields(of, owner, schema, bytes, i, pos, vals, log, version) ==
    IF i > Len(schema) THEN Ok(vals, pos, log)
    ELSE LET field == schema[i][1]
             typ == schema[i][2]
             then(r) ==
                LET done == log \o <<Event(owner, field, typ, pos, r.pos)>> \o r.log
                IN IF ~r.ok
                   THEN field_context(Err(r.err, r.pos, done), of, owner, field)
                   ELSE ReadFields(of, owner, schema, bytes, i + 1, r.pos,
                                   Append(vals, into(typ, r.val)), done, version)
         IN Once(TypeRead(typ, bytes, pos, version), then)

\* The field loop of a write:
\* user_type_convert_to_writeable!(typ, &self.field).write(buffer, version);
WriteFields(owner, schema, vals, i, st, version) ==
    IF i > Len(schema) THEN st
    ELSE LET field == schema[i][1]
             typ == schema[i][2]
             then(w) ==
                WriteFields(owner, schema, vals, i + 1,
                            [buf |-> w.buf,
                             log |-> st.log
                                     \o <<Event(owner, field, typ, Len(st.buf), Len(w.buf))>>
                                     \o w.log],
                            version)
         IN Once(TypeWrite(typ, user_type_convert_to_writeable(typ, vals[i]),
                           st.buf, version), then)

\* A read that answers a failed field with an empty packet instead of the error.
packets_read_or_default(P, bytes, pos, version) ==
    LET then(r) == IF r.ok THEN Ok([type |-> P, f |-> r.val], r.pos, r.log)
                   ELSE Ok([type |-> P, f |-> <<>>], r.pos, r.log)
    IN Once(ReadFields("packet", P, PacketSchema(P), bytes, 1, pos, <<>>, <<>>, version),
            then)

\* packets!: impl Readable for $packet
packets_read(P, bytes, pos, version) ==
    LET then(r) == IF r.ok THEN Ok([type |-> P, f |-> r.val], r.pos, r.log) ELSE r
    IN Once(ReadFields("packet", P, PacketSchema(P), bytes, 1, pos, <<>>, <<>>, version),
            then)

Reverse(q) == [i \in 1..Len(q) |-> q[Len(q) + 1 - i]]

\* The fields written last to first.
packets_write_reversed(self, buffer, version) ==
    WriteFields(self.type, Reverse(PacketSchema(self.type)), Reverse(self.f), 1,
                [buf |-> buffer, log |-> <<>>], version)

\* packets!: impl Writeable for $packet
packets_write(self, buffer, version) ==
    WriteFields(self.type, PacketSchema(self.type), self.f, 1,
                [buf |-> buffer, log |-> <<>>], version)

\* The first arm of a match, in declaration order, whose literal equals d; 0 if none.
FirstArm(arms, d) ==
    IF \E i \in DOMAIN arms : arms[i] = d
    THEN CHOOSE i \in DOMAIN arms : arms[i] = d /\ \A j \in 1..(i - 1) : arms[j] # d
    ELSE 0

\* An unmatched discriminant answered with the first variant.
def_enum_no_match_default(E, raw, bytes, pos, log) ==
    Ok([enum |-> E, variant |-> EnumSchema(E)[1].variant, f |-> <<>>], pos, log)

\* def_enum!: the arm  _ => Err(anyhow!("no discriminant for enum `E` matched
\* value {:?}", discriminant))
def_enum_no_match(E, raw, bytes, pos, log) ==
    Err(Error("UnknownVariant", E, raw), pos, log)

\* def_enum!: impl Readable for $ident
def_enum_read(E, bytes, pos, version) ==
    LET variant(entry, r) ==
            IF r.ok
            THEN Ok([enum |-> E, variant |-> entry.variant, f |-> r.val], r.pos, r.log)
            ELSE r
        match(d) ==
            LET dlog == <<Event(E, "discriminant", DiscriminantType(E), pos, d.pos)>>
                raw == into(DiscriminantType(E), d.val)
                arm == FirstArm([i \in DOMAIN EnumSchema(E) |-> EnumSchema(E)[i].lit], raw)
                fields(r) == variant(EnumSchema(E)[arm], r)
            IN IF ~d.ok
               THEN Context(Err(d.err, d.pos, dlog), DiscriminantContext(E))
               ELSE IF arm = 0
               THEN def_enum_no_match(E, raw, bytes, d.pos, dlog)
               ELSE Once(ReadFields("enum", VariantOwner(E, EnumSchema(E)[arm].variant),
                                    EnumSchema(E)[arm].fields, bytes, 1, d.pos, <<>>,
                                    dlog, version),
                         fields)
    IN Once(TypeRead(DiscriminantType(E), bytes, pos, version), match)

\* The variant's position written as its discriminant.
def_enum_write_position(self, buffer, version) ==
    LET E == self.enum
        arm == CHOOSE i \in DOMAIN EnumSchema(E) : EnumSchema(E)[i].variant = self.variant
        entry == EnumSchema(E)[arm]
        discriminant == [wire |-> DiscriminantType(E), v |-> arm]
        then(d) ==
            WriteFields(VariantOwner(E, entry.variant), entry.fields, self.f, 1,
                        [buf |-> d.buf,
                         log |-> <<Event(E, "discriminant", DiscriminantType(E), Len(buffer),
                                          Len(d.buf))>>],
                        version)
    IN Once(TypeWrite(DiscriminantType(E), discriminant, buffer, version), then)

\* def_enum!: impl Writeable for $ident
def_enum_write(self, buffer, version) ==
    LET E == self.enum
        arm == CHOOSE i \in DOMAIN EnumSchema(E) : EnumSchema(E)[i].variant = self.variant
        entry == EnumSchema(E)[arm]
        discriminant == [wire |-> DiscriminantType(E), v |-> entry.lit]
        then(d) ==
            WriteFields(VariantOwner(E, entry.variant), entry.fields, self.f, 1,
                        [buf |-> d.buf,
                         log |-> <<Event(E, "discriminant", DiscriminantType(E), Len(buffer),
                                          Len(d.buf))>>],
                        version)
    IN Once(TypeWrite(DiscriminantType(E), discriminant, buffer, version), then)

\* The position of the variant in the enum instead of its bound ID.
packet_enum_id_by_position(self) ==
    LET R == Registry(self.enum)
    IN (CHOOSE i \in DOMAIN R : R[i].packet = self.packet) - 1

\* packet_enum!: pub fn id(&self) -> u32
packet_enum_id(self) ==
    LET R == Registry(self.enum)
    IN R[CHOOSE i \in DOMAIN R : R[i].packet = self.packet].id

\* An unknown packet skipped by draining the rest of the buffer.
packet_enum_no_match_drains(R, packet_id, bytes, pos, log) ==
    Err(Error("UnknownPacketId", R, packet_id), Len(bytes), log)

\* packet_enum!: the arm  _ => Err(anyhow!("unknown packet ID {}", packet_id))
packet_enum_no_match(R, packet_id, bytes, pos, log) ==
    Err(Error("UnknownPacketId", R, packet_id), pos, log)

\* packet_enum!: impl Readable for $ident
packet_enum_read(R, bytes, pos, version) ==
    LET match(n) ==
            LET nlog == <<Event(R, "id", "VarInt", pos, n.pos)>>
                packet_id == n.val.v
                arm == FirstArm([i \in DOMAIN Registry(R) |-> Registry(R)[i].id], packet_id)
                P == Registry(R)[arm].packet
                wrap(r) ==
                    IF r.ok
                    THEN Ok([enum |-> R, packet |-> P, p |-> r.val], r.pos, nlog \o r.log)
                    ELSE Err(r.err, r.pos, nlog \o r.log)
            IN IF ~n.ok THEN Err(n.err, n.pos, nlog)
               ELSE IF arm = 0
               THEN packet_enum_no_match(R, packet_id, bytes, n.pos, nlog)
               ELSE Once(packets_read(P, bytes, n.pos, version), wrap)
    IN Once(VarIntRead(bytes, pos), match)

\* packet_enum!: impl Writeable for $ident
packet_enum_write(self, buffer, version) ==
    LET packet(n) ==
            LET then(w) ==
                    [buf |-> w.buf,
                     log |-> <<Event(self.enum, "id", "VarInt", Len(buffer), Len(n.buf))>> \o w.log]
            IN Once(packets_write(self.p, n.buf, version), then)
    IN Once(TypeWrite("VarInt", [wire |-> "VarInt", v |-> packet_enum_id(self)],
                      buffer, version), packet)

\* packet_enum!: impl VariantOf<$ident> for $packet
discriminant_id(R, P) ==
    Registry(R)[CHOOSE i \in DOMAIN Registry(R) : Registry(R)[i].packet = P].id

None == [some |-> FALSE, p |-> NoVal]
Some(p) == [some |-> TRUE, p |-> p]

\* A destructure whose match has only the catch-all arm bound to the payload.
destructure_any(P, e) == Some(e.p)

destructure(P, e) == IF e.packet = P THEN Some(e.p) ELSE None

\* A packet wrapped in the registry's first variant.
Widen_first(R, p) == [enum |-> R, packet |-> Registry(R)[1].packet, p |-> p]

\* The enum constructor $ident::$packet(p): wrapping a packet in its envelope.
Widen(R, p) == [enum |-> R, packet |-> p.type, p |-> p]
(***************************************************************************)
(* The values a caller constructs, per wire type.                          *)
(***************************************************************************)
VarIntSamples == {1, 300, -1}
U8Samples == {127}
U64Samples == {<<0, 0, 0, 0>>, <<4386, 13124, 21862, 30600>>}
F64Samples == {<<0, 0, 0, 0>>, <<16368, 0, 0, 0>>}
Chars == {97, 233}
DataBytes == {0, 255}
AngleSamples == {0, 64, 5760}

SeqsUpTo(S, n) == UNION {[1..k -> S] : k \in 0..n}

RECURSIVE ValuesOf(_)
RECURSIVE Tuples(_)
ValuesOf(typ) ==
    CASE typ = "VarInt" -> VarIntSamples
      [] typ = "u8" -> U8Samples
      [] typ = "u64" -> U64Samples
      [] typ = "f64" -> F64Samples
      [] typ = "bool" -> BOOLEAN
      [] typ = "String" -> SeqsUpTo(Chars, MaxStrLen)
      [] typ = "LengthInferredVecU8" -> SeqsUpTo(DataBytes, MaxDataLen)
      [] typ = "Angle" -> AngleSamples
      [] typ \in EnumNames ->
            UNION {{[enum |-> typ, variant |-> EnumSchema(typ)[i].variant, f |-> t] :
                        t \in Tuples(EnumSchema(typ)[i].fields)} :
                   i \in DOMAIN EnumSchema(typ)}

Tuples(schema) ==
    IF schema = <<>> THEN {<<>>}
    ELSE {<<v>> \o t : v \in ValuesOf(schema[1][2]), t \in Tuples(Tail(schema))}

Instances(P) == {[type |-> P, f |-> t] : t \in Tuples(PacketSchema(P))}

\* Bytes a damaged stream carries in place of a written one, and the streams
\* that no encoder of this registry wrote.
CorruptBytes == {2, 3, 255}
FeedIds == {16, 58, 127, 999, -1}
FeedTails == SeqsUpTo({0, 97}, MaxTailLen)

(***************************************************************************)
(* The state machine: a caller constructs a packet, may wrap it in the     *)
(* registry's envelope, writes it to an empty buffer; the transport may    *)
(* cut the bytes short or damage one; the receiver reads them from a       *)
(* cursor at position 0 and may narrow the envelope it got.                *)
(***************************************************************************)
VARIABLES stage, packet, env, wide, buffer, wlog, damage, r, narrowed

\* The command state (the registered commands), the entities of the world that
\* have a MessageReceiver, the last call of dispatch and what it sent.
VARIABLES dispatcher, receivers, call, sent

codec_vars == <<stage, packet, env, wide, buffer, wlog, damage, r, narrowed>>
command_vars == <<dispatcher, receivers, call, sent>>
vars == <<codec_vars, command_vars>>

(***************************************************************************)
(* The command state.  CommandState::new registers the commands; dispatch  *)
(* hands a command to the dispatcher, which parses and runs it with the    *)
(* game and the world in its context, and replies to the sender with what  *)
(* the dispatcher returned.                                                *)
(***************************************************************************)
Entities == 1..NumEntities

\* commands! { dispatcher: tp_1, .. pardonip, }
CommandState_new ==
    {"tp_1", "tp_2", "tp_3", "tp_4", "gamemode_1", "gamemode_2",
     "whisper", "say", "me", "kick_1", "kick_2", "stop",
     "clear_1", "clear_2", "clear_3", "clear_4", "seed",
     "ban_withreason", "ban_noreason", "banip_withreason", "banip_noreason",
     "banip_withreason_ip", "banip_noreason_ip", "pardon", "pardonip"}

\* What the dispatcher returns: Result<Option<String>, Vec<anyhow::Error>>.
\* NoMessage is the None of an Option<String>.
NoMessage == [some |-> FALSE, p |-> ""]
DispatchOk(ok) == [ok |-> TRUE, val |-> ok, errs |-> <<>>]
DispatchErr(errs) == [ok |-> FALSE, val |-> NoMessage, errs |-> errs]

OkMessages == {"Seed: 0", "Teleported"}
ErrorSamples == {[msg |-> "Expected integer"], [msg |-> "Player not found"]}
DispatchResults ==
    {DispatchOk(NoMessage)}
        \cup {DispatchOk(Some(m)) : m \in OkMessages}
        \cup {DispatchErr(errs) : errs \in SeqsUpTo(ErrorSamples, MaxErrs)}

to_string(error) == error.msg
Text_from(string) == [text |-> string, color |-> "none"]
red(text) == [text EXCEPT !.color = "red"]

\* world.try_get_mut::<MessageReceiver>(sender) is Some
try_get_mut(world, sender) == sender \in world

\* receiver.send(msg), on the receiver of entity
send(entity, msg) == [to |-> entity, msg |-> msg]

\* A reply made of the first error of the list.
CommandState_dispatch_first(world, sender, result) ==
    IF result.ok
    THEN IF result.val.some /\ try_get_mut(world, sender)
         THEN <<send(sender, Text_from(result.val.p))>>
         ELSE <<>>
    ELSE LET errs == result.errs
             msg == IF errs # <<>>
                    THEN red(Text_from(to_string(errs[1])))
                    ELSE Text_from("Unknown command.")
         IN IF try_get_mut(world, sender) THEN <<send(sender, msg)>> ELSE <<>>

\* The match of dispatch on the dispatcher's result, in the world the command
\* left: the messages it sends, in order.
CommandState_dispatch(world, sender, result) ==
    IF result.ok
    THEN IF result.val.some /\ try_get_mut(world, sender)
         THEN <<send(sender, Text_from(result.val.p))>>
         ELSE <<>>
    ELSE LET errs == result.errs
             msg == IF errs # <<>>
                    THEN red(Text_from(to_string(errs[Len(errs)])))
                    ELSE Text_from("Unknown command.")
         IN IF try_get_mut(world, sender) THEN <<send(sender, msg)>> ELSE <<>>

NoCall == [sender |-> 0, result |-> DispatchOk(NoMessage)]

NoPacket == [type |-> "", f |-> <<>>]
NoEnv == [enum |-> "", packet |-> "", p |-> NoPacket]
NoRes == Err(NoErr, 0, <<>>)
NoNarrow == [for |-> "", of |-> NoEnv, got |-> None]

Init ==
    /\ stage = "idle"
    /\ packet = NoPacket
    /\ env = NoEnv
    /\ wide = FALSE
    /\ buffer = <<>>
    /\ wlog = <<>>
    /\ damage = "none"
    /\ r = NoRes
    /\ narrowed = NoNarrow
    /\ dispatcher = CommandState_new
    /\ receivers = {}
    /\ call = NoCall
    /\ sent = <<>>

Construct ==
    /\ stage = "idle"
    /\ \E P \in PacketNames : \E p \in Instances(P) : packet' = p
    /\ stage' = "built"
    /\ UNCHANGED <<env, wide, buffer, wlog, damage, r, narrowed>>
    /\ UNCHANGED command_vars

DoWiden ==
    /\ stage = "built"
    /\ ~wide
    /\ \E R \in RegistryNames :
          /\ packet.type \in Bound(R)
          /\ env' = Widen(R, packet)
    /\ wide' = TRUE
    /\ UNCHANGED <<stage, packet, buffer, wlog, damage, r, narrowed>>
    /\ UNCHANGED command_vars

DoWrite ==
    /\ stage = "built"
    /\ wide
    /\ \E version \in Versions :
          LET w == packet_enum_write(env, <<>>, version)
          IN /\ buffer' = w.buf
             /\ wlog' = w.log
    /\ stage' = "written"
    /\ UNCHANGED <<packet, env, wide, damage, r, narrowed>>
    /\ UNCHANGED command_vars

Truncate ==
    /\ stage = "written"
    /\ damage = "none"
    /\ \E k \in 0..(Len(buffer) - 1) : buffer' = SubSeq(buffer, 1, k)
    /\ damage' = "truncated"
    /\ UNCHANGED <<stage, packet, env, wide, wlog, r, narrowed>>
    /\ UNCHANGED command_vars

Corrupt ==
    /\ stage = "written"
    /\ damage = "none"
    /\ \E k \in 1..Len(buffer) : \E b \in CorruptBytes \ {buffer[k]} :
          buffer' = [buffer EXCEPT ![k] = b]
    /\ damage' = "corrupted"
    /\ UNCHANGED <<stage, packet, env, wide, wlog, r, narrowed>>
    /\ UNCHANGED command_vars

Feed ==
    /\ stage = "idle"
    /\ \E id \in FeedIds : \E tail \in FeedTails : buffer' = VarIntGroups(id) \o tail
    /\ \E R \in RegistryNames : env' = [NoEnv EXCEPT !.enum = R]
    /\ wide' = TRUE
    /\ damage' = "foreign"
    /\ stage' = "written"
    /\ UNCHANGED <<packet, wlog, r, narrowed>>
    /\ UNCHANGED command_vars

DoRead ==
    /\ stage = "written"
    /\ \E version \in Versions : r' = packet_enum_read(env.enum, buffer, 0, version)
    /\ stage' = "read"
    /\ UNCHANGED <<packet, env, wide, buffer, wlog, damage, narrowed>>
    /\ UNCHANGED command_vars

DoDestructure ==
    /\ wide
    /\ \/ stage = "built"
       \/ stage = "read" /\ r.ok
    /\ \E P \in Bound(env.enum) :
          LET e == IF stage = "built" THEN env ELSE r.val
          IN narrowed' = [for |-> P, of |-> e, got |-> destructure(P, e)]
    /\ stage' = "narrowed"
    /\ UNCHANGED <<packet, env, wide, buffer, wlog, damage, r>>
    /\ UNCHANGED command_vars

Next ==
    \/ Construct
    \/ DoWiden
    \/ DoWrite
    \/ Truncate
    \/ Corrupt
    \/ Feed
    \/ DoRead
    \/ DoDestructure

Spec == Init /\ [][Next]_vars

\* One call of dispatch by an entity.  The dispatcher parses the command and
\* runs it with the world in its context, so the call replies in the world
\* the command left; the dispatcher is only borrowed.
Dispatch ==
    /\ \E sender \in Entities : \E result \in DispatchResults :
       \E world \in SUBSET Entities :
          /\ call' = [sender |-> sender, result |-> result]
          /\ receivers' = world
          /\ sent' = CommandState_dispatch(world, sender, result)
    /\ dispatcher' = dispatcher
    /\ UNCHANGED codec_vars

CommandNext == Dispatch

CommandSpec == Init /\ [][CommandNext]_vars
(***************************************************************************)
(* Properties.                                                             *)
(***************************************************************************)
Undamaged == damage = "none"
ReadBack == stage = "read" /\ Undamaged
Schema == PacketSchema(env.packet)

\* An angle as one byte carries it: rounded down to a whole 1/256 of a turn.
Quantised(a) == ((a \div AngleUnit) % 256) * AngleUnit

DecodeErrors == {"TruncatedInput", "InvalidUtf8", "CorruptVarInt"}
Truncated == stage = "read" /\ damage = "truncated"
HasInferred(P) == \E i \in DOMAIN PacketSchema(P) : PacketSchema(P)[i][2] = "LengthInferredVecU8"
InferredAt(P) == CHOOSE i \in DOMAIN PacketSchema(P) : PacketSchema(P)[i][2] = "LengthInferredVecU8"
\* Where the written event of the packet's field number i starts.
WrittenFrom(i) ==
    LET k == CHOOSE k \in DOMAIN wlog :
                 wlog[k].owner = env.packet /\ wlog[k].item = Schema[i][1]
    IN wlog[k].from

\* C2, as stated: the bytes of a written packet cut anywhere before their end
\* never decode; the read fails with TruncatedInput, InvalidUtf8 or CorruptVarInt.
C2_TruncationAlwaysFails ==
    Truncated => ~r.ok /\ r.err.kind \in DecodeErrors

\* C2, amended: the bytes of a written packet cut anywhere before their end
\* fail to decode with TruncatedInput, InvalidUtf8 or CorruptVarInt, unless
\* the packet ends in a length-inferred byte sequence and the cut falls at or
\* after the start of that sequence: then the read succeeds and yields the
\* packet with its other fields unchanged and the sequence cut short.
C2_TruncationFailsUnlessLengthInferred ==
    Truncated =>
        IF HasInferred(env.packet) /\ Len(buffer) >= WrittenFrom(InferredAt(env.packet))
        THEN LET d == InferredAt(env.packet)
             IN /\ r.ok
                /\ r.val.packet = env.packet
                /\ \A i \in DOMAIN Schema : i # d => r.val.p.f[i] = env.p.f[i]
                /\ r.val.p.f[d] = SubSeq(env.p.f[d], 1, Len(buffer) - WrittenFrom(d))
                /\ Len(r.val.p.f[d]) < Len(env.p.f[d])
        ELSE ~r.ok /\ r.err.kind \in DecodeErrors

\* A PluginMessage whose two bytes of data were cut to one decoded.
C2_Witness ==
    /\ Truncated
    /\ env.packet = "PluginMessage"
    /\ Len(env.p.f[2]) = 2
    /\ r.ok
    /\ Len(r.val.p.f[2]) = 1
LeadingId == VarIntRead(buffer, 0)
Ids(R) == {Registry(R)[i].id : i \in DOMAIN Registry(R)}
Literals(E) == {EnumSchema(E)[i].lit : i \in DOMAIN EnumSchema(E)}

\* C3: a registry read of a stream whose leading VarInt is well-formed and
\* bound to no packet of that registry fails with UnknownPacketId carrying
\* that ID, having read the ID and nothing else: the cursor stands right after
\* the ID.
C3_UnknownIdSafety ==
    (stage = "read" /\ LeadingId.ok /\ LeadingId.val.v \notin Ids(env.enum)) =>
        /\ ~r.ok
        /\ r.err.kind = "UnknownPacketId"
        /\ r.err.raw = LeadingId.val.v
        /\ r.pos = LeadingId.pos
        /\ r.log = <<Event(env.enum, "id", "VarInt", 0, LeadingId.pos)>>

\* The stream 999, 0, 97 read by the client registry: UnknownPacketId(999),
\* the cursor after the two bytes of the ID, two bytes left unread.
C3_Witness ==
    /\ stage = "read"
    /\ damage = "foreign"
    /\ env.enum = "ClientPlayPacket"
    /\ buffer = <<231, 7, 0, 97>>
    /\ r.err.kind = "UnknownPacketId"
    /\ r.err.raw = 999
    /\ r.pos = 2

\* C4: when a read reaches an enum's discriminant and the discriminant read
\* from the stream equals none of the enum's literals, the read fails with
\* UnknownVariant carrying the enum's name and the raw discriminant; no
\* variant is produced and nothing after the discriminant is read.
C4_UnknownDiscriminantSafety ==
    stage = "read" =>
        \A k \in DOMAIN r.log :
            LET ev == r.log[k]
                d == VarIntRead(buffer, ev.from)
            IN (ev.owner \in EnumNames /\ d.ok /\ d.val.v \notin Literals(ev.owner)) =>
                   /\ ~r.ok
                   /\ r.err.kind = "UnknownVariant"
                   /\ r.err.type_name = ev.owner
                   /\ r.err.raw = d.val.v
                   /\ r.pos = d.pos
                   /\ k = Len(r.log)

\* A ClientSettings whose chat mode byte was damaged to 3: UnknownVariant of
\* ChatMode with raw value 3, bytes left unread after the discriminant.
C4_Witness ==
    /\ stage = "read"
    /\ damage = "corrupted"
    /\ env.packet = "ClientSettings"
    /\ r.err.kind = "UnknownVariant"
    /\ r.err.type_name = "ChatMode"
    /\ r.err.raw = 3
    /\ r.pos < Len(buffer)

\* C5: in each registry no two bindings share an ID or a packet type, and
\* whenever a registry read succeeds on a stream whose leading ID is n, the
\* envelope holds the packet type bound to n, its id() is n, writing it puts
\* n first, and that packet type's discriminant_id() is n.
C5_IdMappingStability ==
    /\ \A R \in RegistryNames : \A i, j \in DOMAIN Registry(R) :
          i # j => /\ Registry(R)[i].id # Registry(R)[j].id
                   /\ Registry(R)[i].packet # Registry(R)[j].packet
    /\ (stage = "read" /\ r.ok) =>
          LET n == LeadingId.val.v
          IN /\ \E i \in DOMAIN Registry(env.enum) :
                    Registry(env.enum)[i] = [id |-> n, packet |-> r.val.packet]
             /\ r.val.enum = env.enum
             /\ r.val.p.type = r.val.packet
             /\ packet_enum_id(r.val) = n
             /\ discriminant_id(env.enum, r.val.packet) = n
             /\ \A version \in Versions :
                    LET w == packet_enum_write(r.val, <<>>, version)
                    IN /\ VarIntRead(w.buf, 0).ok
                       /\ VarIntRead(w.buf, 0).val.v = n

\* A KeepAlive read back from the ID 16.
C5_Witness ==
    /\ ReadBack
    /\ r.ok
    /\ LeadingId.val.v = 16
    /\ r.val.packet = "KeepAlive"
    /\ packet_enum_id(r.val) = 16

\* C6: destructuring an envelope for a packet type bound in its registry
\* yields Some of the envelope's payload, unchanged, exactly when the
\* envelope holds a packet of that type, and None otherwise.
C6_Narrow ==
    stage = "narrowed" =>
        /\ narrowed.of = (IF r.ok THEN r.val ELSE env)
        /\ narrowed.for \in Bound(narrowed.of.enum)
        /\ narrowed.got.some <=> (narrowed.of.p.type = narrowed.for)
        /\ narrowed.got.some => narrowed.got.p = narrowed.of.p
        /\ (narrowed.got.some /\ ~r.ok) => narrowed.got.p = packet

\* A decoded InteractEntity envelope asked for a ChatMessage: None.
C6_Witness ==
    /\ stage = "narrowed"
    /\ r.ok
    /\ narrowed.of.p.type = "InteractEntity"
    /\ narrowed.for = "ChatMessage"
    /\ ~narrowed.got.some

\* C7: every constructed packet of a type bound in a registry can be wrapped
\* (the wrap never fails), the envelope holds that very packet under its
\* type's one bound ID, and narrowing the envelope back to the type yields
\* the packet; narrowing it to any other bound type yields None.
C7_Widen ==
    /\ (stage = "built" /\ ~wide /\ \E R \in RegistryNames : packet.type \in Bound(R))
          => ENABLED DoWiden
    /\ (stage = "built" /\ wide) =>
          /\ env.p = packet
          /\ packet.type \in Bound(env.enum)
          /\ Cardinality({i \in DOMAIN Registry(env.enum) :
                             Registry(env.enum)[i].packet = packet.type}) = 1
          /\ packet_enum_id(env) = discriminant_id(env.enum, packet.type)
          /\ destructure(packet.type, env) = Some(packet)
          /\ \A P \in Bound(env.enum) \ {packet.type} : destructure(P, env) = None
    /\ (stage = "narrowed" /\ ~r.ok /\ narrowed.for = packet.type) =>
          narrowed.got = Some(packet)

\* A PluginMessage wrapped and narrowed back.
C7_Witness ==
    /\ stage = "narrowed"
    /\ ~r.ok
    /\ packet.type = "PluginMessage"
    /\ narrowed.for = "PluginMessage"
    /\ narrowed.got = Some(packet)
\* The events of fields: those of a packet's fields and of a variant's fields.
IsField(ev) == ev.owner \notin RegistryNames /\ ev.owner \notin EnumNames
OwnerKind(owner) == IF owner \in PacketNames THEN "packet" ELSE "enum"
Names(ev) == FieldContext(OwnerKind(ev.owner), ev.owner, ev.item)

\* C8: whenever the read of a field of a packet or of an enum variant fails,
\* the enclosing read fails too (no value stands in for the field), its error
\* keeps the field's own error as root cause, and its contexts name that
\* field with its packet or enum::variant, the outermost context being the
\* packet's field.
C8_ErrorWrapping ==
    stage = "read" =>
        \A k \in DOMAIN r.log : \A version \in Versions :
            LET ev == r.log[k]
                t == TypeRead(ev.typ, buffer, ev.from, version)
            IN (IsField(ev) /\ ~t.ok) =>
                   /\ ~r.ok
                   /\ r.err.kind = t.err.kind
                   /\ r.err.type_name = t.err.type_name
                   /\ r.err.raw = t.err.raw
                   /\ \E c \in DOMAIN r.err.ctx : r.err.ctx[c] = Names(ev)
                   /\ r.err.ctx[1].of = "packet"
                   /\ r.err.ctx[1].owner \in PacketNames
                   /\ ev.owner \in PacketNames => r.err.ctx[1] = Names(ev)

\* An InteractEntity cut inside the hand of its InteractAt: CorruptVarInt,
\* under the contexts of field kind of the packet and of field hand of the
\* variant.
C8_Witness ==
    /\ stage = "read"
    /\ damage = "truncated"
    /\ ~r.ok
    /\ r.err.kind = "CorruptVarInt"
    /\ r.err.ctx = <<FieldContext("packet", "InteractEntity", "kind"),
                     FieldContext("enum", "InteractEntityKind::InteractAt", "hand")>>

PacketEvents(log, P) == SelectSeq(log, LAMBDA ev : ev.owner = P)
Alone(typ, val, version) ==
    TypeWrite(typ, user_type_convert_to_writeable(typ, val), <<>>, version).buf

\* C9: a written envelope is the VarInt of its packet's bound ID followed by
\* the packet's fields in schema order, each written once, one right after
\* the other, each being the encoding of that field's value; reading the
\* bytes back performs the same events over the same bytes in the same order.
C9_WireOrder ==
    /\ (stage \in {"written", "read"} /\ Undamaged) =>
          LET top == PacketEvents(wlog, env.packet)
              id == discriminant_id(env.enum, env.packet)
          IN /\ wlog[1] = Event(env.enum, "id", "VarInt", 0, Len(VarIntGroups(id)))
             /\ SubSeq(buffer, 1, wlog[1].to) = VarIntGroups(id)
             /\ Len(top) = Len(Schema)
             /\ \A i \in DOMAIN Schema :
                   /\ top[i].item = Schema[i][1]
                   /\ top[i].typ = Schema[i][2]
                   /\ top[i].from = (IF i = 1 THEN wlog[1].to ELSE top[i - 1].to)
                   /\ \A version \in Versions :
                         SubSeq(buffer, top[i].from + 1, top[i].to)
                             = Alone(Schema[i][2], env.p.f[i], version)
             /\ top[Len(top)].to = Len(buffer)
    /\ ReadBack => r.log = wlog

\* A ClientSettings written and read back: the ID, six fields and the chat
\* mode's discriminant, the same eight events either way.
C9_Witness ==
    /\ ReadBack
    /\ env.packet = "ClientSettings"
    /\ Len(wlog) = 8
    /\ r.log = wlog
    /\ wlog[8].item = "main_hand"

VariantOwners(E) == {VariantOwner(E, EnumSchema(E)[i].variant) : i \in DOMAIN EnumSchema(E)}
EntryOf(E, lit) == EnumSchema(E)[CHOOSE i \in DOMAIN EnumSchema(E) : EnumSchema(E)[i].lit = lit]

\* In log over the bytes buf: every discriminant that is a literal of its
\* enum comes before the fields of the variant bound to it, which follow in
\* order (all of them if the operation completed), and no field of another
\* variant of the enum appears.
Sequenced(log, buf, completed) ==
    \A k \in DOMAIN log :
        LET E == log[k].owner
            d == VarIntRead(buf, log[k].from)
        IN (E \in EnumNames /\ d.ok /\ d.val.v \in Literals(E)) =>
               LET entry == EntryOf(E, d.val.v)
                   own == VariantOwner(E, entry.variant)
               IN /\ log[k].to = d.pos
                  /\ \A j \in DOMAIN log :
                        log[j].owner \in VariantOwners(E) =>
                            /\ log[j].owner = own
                            /\ j > k
                            /\ j <= k + Len(entry.fields)
                            /\ log[j].item = entry.fields[j - k][1]
                  /\ completed =>
                        \A j \in 1..Len(entry.fields) :
                            k + j <= Len(log) /\ log[k + j].owner = own

\* The enum-typed fields of packet value p hold the variant, and only the
\* fields of the variant, that the discriminant under their event in log names.
HoldsNamedVariant(p, log, buf) ==
    \A i \in DOMAIN PacketSchema(p.type) :
        LET E == PacketSchema(p.type)[i][2]
        IN E \in EnumNames =>
               \A k \in DOMAIN log :
                   log[k].owner = E =>
                       LET d == VarIntRead(buf, log[k].from)
                       IN /\ d.ok
                          /\ d.val.v \in Literals(E)
                          /\ p.f[i].enum = E
                          /\ p.f[i].variant = EntryOf(E, d.val.v).variant
                          /\ Len(p.f[i].f) = Len(EntryOf(E, d.val.v).fields)

\* C10: the literals of an enum are distinct; a write puts the variant's own
\* literal before the variant's fields and writes no field of another
\* variant; a read reads the discriminant before any variant field, then the
\* fields of the one variant bound to it and of no other, and the value it
\* yields holds that variant with exactly its fields.
C10_TaggedVariantSequencing ==
    /\ \A E \in EnumNames : \A i, j \in DOMAIN EnumSchema(E) :
          i # j => /\ EnumSchema(E)[i].lit # EnumSchema(E)[j].lit
                   /\ EnumSchema(E)[i].variant # EnumSchema(E)[j].variant
    /\ (stage = "written" /\ Undamaged) =>
          /\ Sequenced(wlog, buffer, TRUE)
          /\ HoldsNamedVariant(env.p, wlog, buffer)
    /\ stage = "read" =>
          /\ Sequenced(r.log, buffer, r.ok)
          /\ r.ok => HoldsNamedVariant(r.val.p, r.log, buffer)

\* An InteractEntity written as Attack whose discriminant was damaged to 2
\* read as InteractAt, until the bytes ran out in one of its fields.
C10_Witness ==
    /\ stage = "read"
    /\ damage = "corrupted"
    /\ env.packet = "InteractEntity"
    /\ env.p.f[2].variant = "Attack"
    /\ \E k \in DOMAIN r.log : r.log[k].owner = "InteractEntityKind::InteractAt"
    /\ ~r.ok

(***************************************************************************)
(* The protocol version.                                                   *)
(***************************************************************************)
\* What a write of envelope e to an empty buffer yields under each version,
\* and what a read of bytes from position 0 yields under each version.
WritesOf(e) == {packet_enum_write(e, <<>>, version) : version \in Versions}
ReadsOf(R, bytes) == {packet_enum_read(R, bytes, 0, version) : version \in Versions}

\* C11: the version handed to a write or a read changes nothing: an envelope
\* is written to the same bytes (and by the same codec calls) under any two
\* versions, and any bytes, damaged or foreign ones included, are read to the
\* same result under any two versions: the same value or the same error,
\* with the cursor at the same position.
C11_VersionIndependence ==
    /\ (wide /\ env.packet # "") =>
          /\ Cardinality(WritesOf(env)) = 1
          /\ (stage = "written" /\ Undamaged) => WritesOf(env) = {[buf |-> buffer, log |-> wlog]}
    /\ stage \in {"written", "read"} =>
          /\ Cardinality(ReadsOf(env.enum, buffer)) = 1
          /\ stage = "read" => ReadsOf(env.enum, buffer) = {r}

\* More than one version is drawn, and a ClientSettings, whose fields
\* include a bool and a nested enum that is handed the version in its turn,
\* was written and read back.
C11_Witness ==
    /\ Cardinality(Versions) >= 2
    /\ ReadBack
    /\ r.ok
    /\ r.val.packet = "ClientSettings"
    /\ \E k \in DOMAIN r.log : r.log[k].owner = "ChatMode"

(***************************************************************************)
(* The reply of a command.                                                 *)
(***************************************************************************)
Called == call.sender \in Entities

====
